---- MODULE Spec2Model ----
(***************************************************************************)
(* A model of the @timkendrick/syntax parser-combinator engine:           *)
(*   - grammar.ts : createGrammar, createTokenParser, lazy rule accessors  *)
(*   - parser.ts  : Parser.tokenize, Parser.parse, parse                   *)
(*   - combinators: token, empty, eof, optional, sequence, choice,         *)
(*                  zeroOrMore, oneOrMore, list, map, text, struct, node   *)
(*                                                                         *)
(* Source text is a sequence of characters; offsets are 0-based as in the  *)
(* code, so the character at offset i is input[i + 1].                     *)
(***************************************************************************)
EXTENDS Integers, Sequences, FiniteSets, TLC

VARIABLES
    pc,            \* position of the call: "start", "ready", "lexing", "lexed", "done", "applied"
    tokenTypes,    \* grammar.tokenTypes: <<[key, regex]>> in own-key order
    declared,      \* the token declarations as written: <<[key, pattern]>>
    ruleInstances, \* backing table of createLazyRuleAccessors: name -> rule
    rootNodeType,  \* the root rule name handed to parse
    source,        \* the input string
    tokens,        \* LexerState.tokens
    currentIndex,  \* LexerState.currentIndex
    lexerResult,   \* result of Parser.tokenize, or NoResult
    parserResult,  \* result of Parser.parse / parse, or NoResult
    applied,       \* record of a direct rule application, or NoResult
    syntaxAst,     \* the rules of the grammar definition AST handed to parseSyntaxGrammar
    syntaxParser,  \* what syntax(source) returned or threw, or NoResult
    regexLastIndex,\* lastIndex of the RegExp object of each token type: <<[key, lastIndex]>>
    completed,     \* the calls of parse(input, grammar, rootNodeType) that have returned
    extensions,    \* the grammars that extendGrammar has returned
    errorOffset,   \* the offset handed to findSourceLocation
    sourceLocation \* what findSourceLocation returned, or NoResult

\* The state of the grammar DSL front end
syntaxVars == <<syntaxAst, syntaxParser>>

\* The state of the error formatter
locationVars == <<errorOffset, sourceLocation>>

\* What outlives a call on the grammar, besides the grammar
reuseVars == <<completed, extensions>>

vars == <<pc, tokenTypes, declared, ruleInstances, rootNodeType, source, tokens,
          currentIndex, lexerResult, parserResult, applied, syntaxVars,
          regexLastIndex, reuseVars, locationVars>>

(***************************************************************************)
(* Bounds of the model.                                                    *)
(***************************************************************************)
MaxSource == 3     \* longest source string
MaxDecls == 2      \* most token declarations of a lexer grammar
MaxAlts == 3       \* most alternatives of a choice
MaxMinLength == 2  \* largest minLength of a list
MaxTokens == MaxSource + 1   \* cap on LexerState.tokens (a zero-length match never advances)

Chars == {"a", "b", "+"}

NoResult == [type |-> "none"]

Range(s) == {s[i] : i \in DOMAIN s}

Strings(n) == UNION {[1..k -> Chars] : k \in 0..n}

\* The source strings that are tokenized
Sources == Strings(MaxSource)

Min(S) == CHOOSE x \in S : \A y \in S : x <= y
Max(S) == CHOOSE x \in S : \A y \in S : x >= y

(***************************************************************************)
(* Regular expressions.  A regex is its source, a sequence of characters,  *)
(* in the dialect the model needs: literal characters, `\c` escapes, `.`,  *)
(* and the greedy postfix quantifiers `+` and `*`.                         *)
(***************************************************************************)
REGEXP_SPECIAL_CHAR ==
    {".", "*", "+", "?", "^", "$", "{", "}", "(", ")", "|", "[", "]", "\\"}

RECURSIVE EscapeFrom(_, _)
EscapeFrom(string, i) ==
    IF i > Len(string) THEN <<>>
    ELSE (IF string[i] \in REGEXP_SPECIAL_CHAR
            THEN <<"\\", string[i]>>
            ELSE <<string[i]>>) \o EscapeFrom(string, i + 1)

\* escapeRegExpSource: every special character is prefixed by a backslash
escapeRegExpSource(string) == EscapeFrom(string, 1)

\* The atom that starts at position p of a regex source
AtomWidth(re, p) == IF re[p] = "\\" THEN 2 ELSE 1
AtomValid(re, p) ==
    IF re[p] = "\\" THEN p + 1 <= Len(re) ELSE re[p] \notin {"+", "*"}
AtomMatches(re, p, c) ==
    IF re[p] = "\\" THEN c = re[p + 1]
    ELSE IF re[p] = "." THEN TRUE
    ELSE c = re[p]
Quantifier(re, p) ==
    LET q == p + AtomWidth(re, p)
    IN IF q <= Len(re) /\ re[q] \in {"+", "*"} THEN re[q] ELSE "1"

\* Number of consecutive characters from offset i that the atom at p matches
RECURSIVE RunLength(_, _, _, _)
RunLength(re, p, input, i) ==
    IF i < Len(input) /\ AtomMatches(re, p, input[i + 1])
    THEN 1 + RunLength(re, p, input, i + 1)
    ELSE 0

\* Backtracking match of re[p..] against input at offset i:
\* the end offset of the match, or -1.
RECURSIVE RegExpMatch(_, _, _, _)
RECURSIVE Backtrack(_, _, _, _, _, _)
RegExpMatch(re, p, input, i) ==
    IF p > Len(re) THEN i
    ELSE IF ~AtomValid(re, p) THEN -1   \* `new RegExp` rejects the source
    ELSE LET q == Quantifier(re, p)
             next == p + AtomWidth(re, p) + (IF q = "1" THEN 0 ELSE 1)
         IN IF q = "1"
            THEN IF i < Len(input) /\ AtomMatches(re, p, input[i + 1])
                 THEN RegExpMatch(re, next, input, i + 1)
                 ELSE -1
            ELSE Backtrack(re, next, input, i, RunLength(re, p, input, i),
                           IF q = "+" THEN 1 ELSE 0)
Backtrack(re, next, input, i, k, least) ==
    IF k < least THEN -1
    ELSE LET r == RegExpMatch(re, next, input, i + k)
         IN IF r # -1 THEN r ELSE Backtrack(re, next, input, i, k - 1, least)

\* createRegExpAnchoredAtIndex + RegExp.prototype.test with the sticky flag:
\* the match has to start at `index`; the result is lastIndex, or -1
StickyTest(re, input, index) == RegExpMatch(re, 1, input, index)

\* A token pattern of a grammar definition: a string or a RegExp
StringPattern(s) == [string |-> TRUE, src |-> s]
RegExpPattern(s) == [string |-> FALSE, src |-> s]

\* createTokenParser: the regex that the returned TokenParser matches with
createTokenParserUnescaped(pattern) == pattern.src
createTokenParser(pattern) ==
    IF pattern.string THEN escapeRegExpSource(pattern.src) ELSE pattern.src

\* The TokenParser closure: the next currentIndex, or -1 for null
TokenParser(regex, input, index) == StickyTest(regex, input, index)

(***************************************************************************)
(* Own-key order of a JavaScript object (Reflect.ownKeys): keys that are   *)
(* array indices come first in ascending numeric order, then the other     *)
(* string keys in insertion order.  Objects are sequences of [key, value]  *)
(* kept in that order.                                                     *)
(***************************************************************************)
ArrayIndexKeys == <<"0", "1", "2">>

IsArrayIndex(key) == key \in Range(ArrayIndexKeys)

Keys(entries) == [i \in DOMAIN entries |-> entries[i].key]

Lookup(entries, key) ==
    entries[CHOOSE i \in DOMAIN entries : entries[i].key = key].value

OwnKeys(entries) ==
    SelectSeq(ArrayIndexKeys, LAMBDA k : k \in Range(Keys(entries)))
        \o SelectSeq(Keys(entries), LAMBDA k : ~IsArrayIndex(k))

\* Reflect.ownKeys(obj).map(key => [key, obj[key]])
OwnEntries(entries) ==
    LET keys == OwnKeys(entries)
    IN [i \in DOMAIN keys |-> [key |-> keys[i], value |-> Lookup(entries, keys[i])]]

\* createGrammar: tokenTypes, a token parser per own key of definition.tokens
TokenTypes(declarations) ==
    LET entries == OwnEntries(declarations)
    IN [i \in DOMAIN entries |->
          [key |-> entries[i].key, value |-> createTokenParser(entries[i].value)]]

(***************************************************************************)
(* Tokens, locations and results.                                          *)
(***************************************************************************)
Location(start, end) == [start |-> start, end |-> end]

Token(type, start, end) == [type |-> type, location |-> Location(start, end)]

Success(value) == [type |-> "success", value |-> value]

Failure(error) == [type |-> "error", error |-> error]

\* ParseError: the message as passed to the constructor (a tuple of the parts
\* of the template string), and the location
ParseError(message, location) == [message |-> message, location |-> location]

(***************************************************************************)
(* Parser.tokenize.                                                        *)
(***************************************************************************)
\* tokenParsers: [key, tokenParser] for each own key of grammar.tokenTypes
tokenParsers(types) == OwnEntries(types)

\* The inner for-loop of tokenize: position in `parsers` of the first token
\* parser whose result is not null at `index`, or 0 if there is none
FirstMatch(parsers, input, index) ==
    LET hits == {j \in DOMAIN parsers : TokenParser(parsers[j].value, input, index) # -1}
    IN IF hits = {} THEN 0 ELSE Min(hits)

\* createGrammar: the RegExp object that createTokenParser keeps for each token
\* type (the declared RegExp, or the one made from the declared string), with
\* the lastIndex of a RegExp that has not been used
NewRegExps(declarations) ==
    [i \in DOMAIN OwnEntries(declarations) |->
        [key |-> OwnEntries(declarations)[i].key, value |-> 0]]

\* createRegExpAnchoredAtIndex(pattern, index): the lastIndex of the RegExp that
\* is returned, a new object, and the lastIndex of `pattern` after the call
createRegExpAnchoredAtIndexInPlace(patternLastIndex, index) ==
    [lastIndex |-> index, pattern |-> index]
createRegExpAnchoredAtIndex(patternLastIndex, index) ==
    [lastIndex |-> index, pattern |-> patternLastIndex]

\* The lastIndex of the RegExp objects of the token types after the inner
\* for-loop of tokenize has invoked the first `tried` token parsers at `index`
AfterTokenParsers(lastIndexes, parsers, tried, index) ==
    [i \in DOMAIN lastIndexes |->
        IF \E j \in 1..tried : parsers[j].key = lastIndexes[i].key
        THEN [key |-> lastIndexes[i].key,
              value |-> createRegExpAnchoredAtIndex(lastIndexes[i].value, index).pattern]
        ELSE lastIndexes[i]]

\* The token tokenize pushes for a match of `tokenType` from `index` to `nextIndex`
LexedTokenOneChar(tokenType, index, nextIndex) == Token(tokenType, index, index + 1)
LexedToken(tokenType, index, nextIndex) == Token(tokenType, index, nextIndex)

\* The error tokenize returns when no token parser matches at `index`
UnrecognizedTokenEmpty(index) ==
    ParseError(<<"Unrecognized token">>, Location(index, index))
UnrecognizedToken(index) ==
    ParseError(<<"Unrecognized token">>, Location(index, index + 1))

(***************************************************************************)
(* Parser rules.  A rule is the record of the combinator call that built   *)
(* it; Apply runs it as the closure the combinator returns would run.      *)
(***************************************************************************)
Null == [null |-> TRUE]

\* The values that rules produce, tagged with their JavaScript type
NullValue == [kind |-> "null", v |-> <<>>]
TokenValue(tok) == [kind |-> "token", v |-> tok]
ArrayValue(values) == [kind |-> "array", v |-> values]
StringValue(chars) == [kind |-> "string", v |-> chars]
NodeValue(type, properties, locations) ==
    [kind |-> "node", v |-> [type |-> type, properties |-> properties, tokens |-> locations]]

token(type) == [op |-> "token", type |-> type]
empty == [op |-> "empty"]
eof == [op |-> "eof"]
optional(rule) == [op |-> "optional", rule |-> rule]
sequence(rules) == [op |-> "sequence", rules |-> rules]
choice(rules) == [op |-> "choice", rules |-> rules]
zeroOrMore(rule) == [op |-> "zeroOrMore", rule |-> rule]
oneOrMore(rule) == [op |-> "oneOrMore", rule |-> rule]
map(rule, transform) == [op |-> "map", rule |-> rule, transform |-> transform]
text(rule) == [op |-> "text", rule |-> rule]
node(type, rule) == [op |-> "node", type |-> type, rule |-> rule]

\* createLazyRuleAccessor(ruleInstances, key): looks the rule up when invoked
LazyRuleAccessor(key) == [op |-> "ref", key |-> key]

\* The value of $[name] for a name that $ has no accessor for
Undefined == [op |-> "undefined"]

\* $[name], where $ holds a lazy accessor for each of `keys`
RuleAccessorAsToken(name, keys) == token(name)
RuleAccessor(name, keys) == IF name \in keys THEN LazyRuleAccessor(name) ELSE Undefined

\* ruleFactory(rules): the rule a factory returns, each $[name] in it read from
\* `rules`, which holds a lazy accessor for each of `keys`
RECURSIVE ruleFactory(_, _)
ruleFactory(rule, keys) ==
    CASE rule.op = "ref" -> RuleAccessor(rule.key, keys)
      [] rule.op \in {"optional", "zeroOrMore", "oneOrMore", "map", "text", "node"} ->
            [rule EXCEPT !.rule = ruleFactory(rule.rule, keys)]
      [] rule.op \in {"sequence", "choice"} ->
            [rule EXCEPT !.rules = [i \in DOMAIN rule.rules |->
                                      ruleFactory(rule.rules[i], keys)]]
      [] OTHER -> rule

\* The backing table that createLazyRuleAccessors(ruleDefinitions) fills: the
\* accessors of all the own keys of ruleDefinitions are made first, and each
\* factory is handed them all
RuleInstancesExposedInTurn(ruleDefinitions) ==
    [i \in DOMAIN OwnEntries(ruleDefinitions) |->
        [key |-> OwnEntries(ruleDefinitions)[i].key,
         value |-> ruleFactory(OwnEntries(ruleDefinitions)[i].value,
                               {OwnEntries(ruleDefinitions)[j].key : j \in 1..(i - 1)})]]
RuleInstances(ruleDefinitions) ==
    [i \in DOMAIN OwnEntries(ruleDefinitions) |->
        [key |-> OwnEntries(ruleDefinitions)[i].key,
         value |-> ruleFactory(OwnEntries(ruleDefinitions)[i].value,
                               Range(Keys(ruleDefinitions)))]]

\* list.ts: the rule graph that list(item, separator, {minLength}) builds
repeatMinLength(value, minLength) == [i \in 1..minLength |-> value]
repeat(value, minLength) == [i \in 1..(minLength - 1) |-> value]

tailItemKeepSeparator(item, separator) == sequence(<<separator, item>>)
tailItemOptionalItem(item, separator) == map(sequence(<<separator, optional(item)>>), "second")
tailItem(item, separator) == map(sequence(<<separator, item>>), "second")

ListOfAtLeast(item, separator, minLength) ==
    map(sequence(<<item>> \o repeat(tailItem(item, separator), minLength)
                     \o <<zeroOrMore(tailItem(item, separator))>>),
        "combineListResults")

createListMatcher(item, separator, minLength) ==
    IF minLength <= 0
    THEN map(optional(ListOfAtLeast(item, separator, 1)), "orEmptyList")
    ELSE ListOfAtLeast(item, separator, minLength)

list(item, separator, minLength) == createListMatcher(item, separator, minLength)

\* Object.fromEntries: a key keeps the place of its first entry and the value
\* of its last
FromEntries(entries) ==
    LET places == SelectSeq([i \in DOMAIN entries |-> i],
                            LAMBDA i : \A j \in 1..(i - 1) : entries[j].key # entries[i].key)
    IN [n \in DOMAIN places |->
          [key |-> entries[places[n]].key,
           value |-> entries[Max({j \in DOMAIN entries :
                                    entries[j].key = entries[places[n]].key})].value]]

\* struct.ts: a field descriptor, and the rule that struct(...fields) builds;
\* a field that has null for its key is matched and left out of the record
field(key, rule) == [key |-> key, keyed |-> TRUE, rule |-> rule]
unkeyedField(rule) == [key |-> "", keyed |-> FALSE, rule |-> rule]

struct(fields) ==
    [op |-> "map", rule |-> sequence([i \in DOMAIN fields |-> fields[i].rule]),
     transform |-> "fieldValues", fields |-> fields]

\* The record that the transform of struct builds from the values of the fields
StructValue(fields, values) ==
    LET keyed == SelectSeq([i \in DOMAIN fields |-> i], LAMBDA i : fields[i].keyed)
    IN [kind |-> "struct",
        v |-> FromEntries([n \in DOMAIN keyed |->
                 [key |-> fields[keyed[n]].key, value |-> values[keyed[n]]]])]

\* The transform functions that the combinators hand to map
Transform(transform, value) ==
    CASE transform = "second" -> value.v[2]
      [] transform = "combineListResults" ->
            ArrayValue(SubSeq(value.v, 1, Len(value.v) - 1) \o value.v[Len(value.v)].v)
      [] transform = "orEmptyList" ->
            IF value.kind = "null" THEN ArrayValue(<<>>) ELSE value

\* Rule results.  `calls` is the log of the rule invocations made, in order:
\* it is not part of the value the code returns.
RuleSuccess(index, value, toks, calls) ==
    [type |-> "success",
     value |-> [currentIndex |-> index, value |-> value, tokens |-> toks],
     calls |-> calls]

ParserRuleError(message, location) == [message |-> message, location |-> location]

RuleFailure(error, calls) == [type |-> "error", error |-> error, calls |-> calls]

\* What the code returns: the result without the log
Returned(result) ==
    IF result.type = "success" THEN Success(result.value) ELSE Failure(result.error)

InputState(input, src, index) == [input |-> input, source |-> src, currentIndex |-> index]

\* ParserRuleHelpers
readToken(state, index) ==
    IF index >= Len(state.input) THEN Null ELSE state.input[index + 1]
eofLocationOneChar(state) == Location(Len(state.source), Len(state.source) + 1)
eofLocation(state) == Location(Len(state.source), Len(state.source))
getTokenSource(state, tok) == SubSeq(state.source, tok.location.start + 1, tok.location.end)

RECURSIVE Concat(_)
Concat(seqs) == IF seqs = <<>> THEN <<>> ELSE Head(seqs) \o Concat(Tail(seqs))

\* choice: the error kept after an alternative has failed with `error`
FurthestErrorLatest(currentError, error) ==
    IF currentError = Null THEN error
    ELSE IF error.location.start >= currentError.location.start THEN error
    ELSE currentError
FurthestError(currentError, error) ==
    IF currentError = Null THEN error
    ELSE IF error.location.start > currentError.location.start THEN error
    ELSE currentError

\* optional, zeroOrMore: the result when the inner rule has failed with `failure`
OptionalUnmatched(state, failure, calls) ==
    RuleSuccess(state.currentIndex, NullValue, <<>>, calls)

ZeroOrMoreStopPropagates(state, values, toks, failure, calls) ==
    IF values = <<>> THEN RuleFailure(failure.error, calls)
    ELSE RuleSuccess(state.currentIndex, ArrayValue(values), toks, calls)
ZeroOrMoreStopCommits(state, values, toks, failure, calls) ==
    LET reached == Cardinality({n \in DOMAIN state.input :
                      state.input[n].location.start < failure.error.location.start})
    IN RuleSuccess(reached, ArrayValue(values),
                   toks \o SubSeq(state.input, state.currentIndex + 1, reached), calls)
ZeroOrMoreStopAtEnd(state, values, toks, failure, calls) ==
    RuleSuccess(Len(state.input), ArrayValue(values), toks, calls)
ZeroOrMoreStop(state, values, toks, failure, calls) ==
    RuleSuccess(state.currentIndex, ArrayValue(values), toks, calls)

\* oneOrMore: the result when the first match has not advanced
OneOrMoreUnadvancedEmpty(firstResultState, calls) ==
    RuleSuccess(firstResultState.currentIndex, ArrayValue(<<>>),
                firstResultState.tokens, calls)
OneOrMoreUnadvanced(firstResultState, calls) ==
    RuleSuccess(firstResultState.currentIndex, ArrayValue(<<firstResultState.value>>),
                firstResultState.tokens, calls)

\* zeroOrMore, oneOrMore: the tokens of the state after one more match
RepeatTokensLatest(currentTokens, resultTokens) == resultTokens
RepeatTokens(currentTokens, resultTokens) == currentTokens \o resultTokens

\* sequence: the tokens collected after one more rule has matched
SequenceTokensReordered(collected, resultTokens) == resultTokens \o collected
SequenceTokens(collected, resultTokens) == collected \o resultTokens

\* zeroOrMore, oneOrMore: whether the while-loop breaks on a success of the
\* inner rule that has led from index `fromIndex` to `resultIndex`
RepeatBreaksEarly(fromIndex, resultIndex) == resultIndex <= fromIndex + 1
RepeatBreaks(fromIndex, resultIndex) == resultIndex = fromIndex

\* choice: whether the loop over the alternatives ends with this result
ChoiceReturns(result) == result.type = "success"

\* choice: the order in which the for-loop visits the alternatives
ChoiceOrderReversed(rules) == [i \in DOMAIN rules |-> rules[Len(rules) + 1 - i]]
ChoiceOrder(rules) == rules

RECURSIVE Apply(_, _, _)
RECURSIVE SequenceLoop(_, _, _, _, _, _, _)
RECURSIVE ChoiceLoop(_, _, _, _, _, _)
RECURSIVE RepeatLoop(_, _, _, _, _, _)

\* rule(state, helpers) for a rule built by the combinators, with the rule
\* instances that the lazy accessors read
Apply(rule, state, instances) ==
    LET index == state.currentIndex
        call == <<[rule |-> rule, at |-> index]>>
    IN CASE rule.op = "token" ->
              LET tok == readToken(state, index)
              IN IF tok = Null \/ tok.type # rule.type
                 THEN RuleFailure(
                        ParserRuleError(<<"Expected token: ", rule.type>>,
                                        IF tok = Null THEN eofLocation(state)
                                        ELSE tok.location),
                        call)
                 ELSE RuleSuccess(index + 1, TokenValue(tok), <<tok>>, call)
         [] rule.op = "empty" -> RuleSuccess(index, NullValue, <<>>, call)
         [] rule.op = "eof" ->
              LET tok == readToken(state, index)
              IN IF tok # Null
                 THEN RuleFailure(ParseError(<<"Expected end of input">>, tok.location), call)
                 ELSE RuleSuccess(index, NullValue, <<>>, call)
         [] rule.op = "optional" ->
              LET result == Apply(rule.rule, state, instances)
              IN IF result.type = "success"
                 THEN [result EXCEPT !.calls = call \o @]
                 ELSE OptionalUnmatched(state, result, call \o result.calls)
         [] rule.op = "sequence" ->
              SequenceLoop(rule.rules, 1, state, <<>>, <<>>, call, instances)
         [] rule.op = "choice" ->
              ChoiceLoop(ChoiceOrder(rule.rules), 1, state, Null, call, instances)
         [] rule.op = "zeroOrMore" ->
              RepeatLoop(rule.rule, state, <<>>, <<>>, call, instances)
         [] rule.op = "oneOrMore" ->
              LET firstResult == Apply(rule.rule, state, instances)
              IN IF firstResult.type = "error"
                 THEN [firstResult EXCEPT !.calls = call \o @]
                 ELSE IF firstResult.value.currentIndex = index
                 THEN OneOrMoreUnadvanced(firstResult.value, call \o firstResult.calls)
                 ELSE RepeatLoop(rule.rule,
                                 [state EXCEPT !.currentIndex = firstResult.value.currentIndex],
                                 <<firstResult.value.value>>, firstResult.value.tokens,
                                 call \o firstResult.calls, instances)
         [] rule.op = "map" ->
              LET result == Apply(rule.rule, state, instances)
              IN IF result.type = "error"
                 THEN [result EXCEPT !.calls = call \o @]
                 ELSE RuleSuccess(result.value.currentIndex,
                                  IF rule.transform = "fieldValues"
                                  THEN StructValue(rule.fields, result.value.value.v)
                                  ELSE Transform(rule.transform, result.value.value),
                                  result.value.tokens, call \o result.calls)
         [] rule.op = "text" ->
              LET result == Apply(rule.rule, state, instances)
              IN IF result.type = "error"
                 THEN [result EXCEPT !.calls = call \o @]
                 ELSE RuleSuccess(result.value.currentIndex,
                                  StringValue(Concat([n \in DOMAIN result.value.tokens |->
                                            getTokenSource(state, result.value.tokens[n])])),
                                  result.value.tokens, call \o result.calls)
         [] rule.op = "node" ->
              LET result == Apply(rule.rule, state, instances)
              IN IF result.type = "error"
                 THEN [result EXCEPT !.calls = call \o @]
                 ELSE RuleSuccess(result.value.currentIndex,
                                  NodeValue(rule.type, result.value.value,
                                            [n \in DOMAIN result.value.tokens |->
                                               result.value.tokens[n].location]),
                                  result.value.tokens, call \o result.calls)
         [] rule.op = "ref" ->
              LET result == Apply(Lookup(instances, rule.key), state, instances)
              IN [result EXCEPT !.calls = call \o @]

\* sequence: the for-loop over the rules, from the n-th on
SequenceLoop(rules, n, currentState, values, toks, calls, instances) ==
    IF n > Len(rules)
    THEN RuleSuccess(currentState.currentIndex, ArrayValue(values), toks, calls)
    ELSE LET result == Apply(rules[n], currentState, instances)
         IN IF result.type = "error"
            THEN [result EXCEPT !.calls = calls \o @]
            ELSE SequenceLoop(rules, n + 1,
                              [currentState EXCEPT !.currentIndex = result.value.currentIndex],
                              Append(values, result.value.value),
                              SequenceTokens(toks, result.value.tokens),
                              calls \o result.calls, instances)

\* choice: the for-loop over the alternatives, from the i-th on
ChoiceLoop(rules, i, state, currentError, calls, instances) ==
    IF i > Len(rules)
    THEN IF currentError = Null
         THEN LET currentToken == readToken(state, state.currentIndex)
              IN RuleFailure(
                   ParserRuleError(<<"No choices available">>,
                                   IF currentToken = Null THEN eofLocation(state)
                                   ELSE currentToken.location),
                   calls)
         ELSE RuleFailure(currentError, calls)
    ELSE LET result == Apply(rules[i], state, instances)
         IN IF ChoiceReturns(result)
            THEN [result EXCEPT !.calls = calls \o @]
            ELSE ChoiceLoop(rules, i + 1, state,
                            FurthestError(currentError, result.error),
                            calls \o result.calls, instances)

\* zeroOrMore and the tail of oneOrMore: the while-loop
RepeatLoop(rule, currentState, values, toks, calls, instances) ==
    LET result == Apply(rule, currentState, instances)
    IN IF result.type = "error"
       THEN ZeroOrMoreStop(currentState, values, toks, result, calls \o result.calls)
       ELSE IF RepeatBreaks(currentState.currentIndex, result.value.currentIndex)
       THEN RuleSuccess(currentState.currentIndex, ArrayValue(values), toks,
                        calls \o result.calls)
       ELSE RepeatLoop(rule,
                       [currentState EXCEPT !.currentIndex = result.value.currentIndex],
                       Append(values, result.value.value),
                       RepeatTokens(toks, result.value.tokens),
                       calls \o result.calls, instances)

(***************************************************************************)
(* Parser.parse: the root rule from index 0, then the end-of-input check.  *)
(***************************************************************************)
\* The check that the root rule has consumed the whole token stream
ParseUnfinishedNever(input, resultState) == FALSE
ParseUnfinished(input, resultState) == resultState.currentIndex # Len(input)

\* The location that the "Expected end of input" error reports
NextTokenLocationOneChar(input, resultState) ==
    Location(resultState.currentIndex, resultState.currentIndex + 1)
NextTokenLocation(input, resultState) == input[resultState.currentIndex + 1].location

ParserParse(input, src, root, instances) ==
    LET result == Apply(LazyRuleAccessor(root), InputState(input, src, 0), instances)
    IN IF result.type = "error"
       THEN Failure(ParseError(result.error.message, result.error.location))
       ELSE IF ParseUnfinished(input, result.value)
       THEN Failure(ParseError(<<"Expected end of input">>,
                               NextTokenLocation(input, result.value)))
       ELSE Success(result.value.value)

\* Parser.tokenize(input) run from `index` to its return, for token parsers
\* that advance on every match: the result, and the lastIndex of the RegExp
\* objects of the token types after it
RECURSIVE TokenizeLoop(_, _, _, _, _)
TokenizeLoop(parsers, lastIndexes, input, index, lexed) ==
    IF ~(index < Len(input))
    THEN [result |-> Success(lexed), lastIndexes |-> lastIndexes]
    ELSE LET j == FirstMatch(parsers, input, index)
         IN IF j = 0
            THEN [result |-> Failure(UnrecognizedToken(index)),
                  lastIndexes |-> AfterTokenParsers(lastIndexes, parsers, Len(parsers), index)]
            ELSE TokenizeLoop(parsers, AfterTokenParsers(lastIndexes, parsers, j, index),
                              input, TokenParser(parsers[j].value, input, index),
                              Append(lexed, LexedToken(parsers[j].key, index,
                                       TokenParser(parsers[j].value, input, index))))

\* parse(input, grammar, rootNodeType) as one call: new Parser(grammar),
\* tokenize, and parse unless tokenize failed
parse(input, types, lastIndexes, instances, root) ==
    LET lexed == TokenizeLoop(tokenParsers(types), lastIndexes, input, 0, <<>>)
    IN [result |-> IF lexed.result.type = "error" THEN lexed.result
                   ELSE ParserParse(lexed.result.value, input, root, instances),
        lastIndexes |-> lexed.lastIndexes]

(***************************************************************************)
(* Grammar definitions handed to createGrammar.                            *)
(***************************************************************************)
TokenKeys == {"A", "B", "0"}

LexPatterns ==
    { StringPattern(<<"a">>), StringPattern(<<"a", "+">>), StringPattern(<<>>),
      RegExpPattern(<<"a", "+">>), RegExpPattern(<<"b", "*">>) }

TokenEntries == {[key |-> k, value |-> p] : k \in TokenKeys, p \in LexPatterns}

\* Token declarations: up to n entries, no key declared twice.  The names "A"
\* and "B" are interchangeable, so "B" is declared only after "A".
TokenDeclarations(n) ==
    {d \in UNION {[1..k -> TokenEntries] : k \in 1..n} :
        /\ \A i, j \in DOMAIN d : i # j => d[i].key # d[j].key
        /\ \A j \in DOMAIN d : d[j].key = "B" => \E i \in 1..(j - 1) : d[i].key = "A"}

NoRules == <<>>

LexDefinitions ==
    {[tokens |-> d, rules |-> NoRules, root |-> "none"] : d \in TokenDeclarations(MaxDecls)}

\* The grammars that are parsed with: two token kinds, of which B spans one or
\* more characters, and the character "+" is no token; the root node wraps the
\* alias rule `body`.
ParseTokens ==
    << [key |-> "A", value |-> StringPattern(<<"a">>)],
       [key |-> "B", value |-> RegExpPattern(<<"b", "+">>)] >>

tA == token("A")
tB == token("B")

Alternatives == {tB, sequence(<<tA, tB>>), sequence(<<tA, tA>>), empty}

Choices(n) == {choice(rs) : rs \in UNION {[1..k -> Alternatives] : k \in 0..n}}

InnerRules == Alternatives \cup {tA, eof, optional(tB), choice(<<tA, tB>>), zeroOrMore(tB)}

Repeats == UNION {{optional(r), zeroOrMore(r), oneOrMore(r)} : r \in InnerRules}

Lists == {list(item, separator, m) : item \in {tA, tB}, separator \in {tA, tB},
                                     m \in 0..MaxMinLength}

Structs == {struct(<<field("head", tA), unkeyedField(tB), field("tail", rule)>>) :
               rule \in {tA, optional(tB), zeroOrMore(tA)}}

\* A rule that invokes itself: $.body within the factory of body
Recursive == {choice(<<sequence(<<tA, LazyRuleAccessor("body")>>), tB>>)}

Bodies == Choices(MaxAlts) \cup Repeats \cup Lists \cup Structs \cup Recursive

ParseDefinitions ==
    {[tokens |-> ParseTokens,
      rules |-> << [key |-> "Root", value |-> node("Root", LazyRuleAccessor("body"))],
                   [key |-> "body", value |-> body] >>,
      root |-> "Root"] : body \in Bodies}

(***************************************************************************)
(* Operations.                                                             *)
(***************************************************************************)
Init ==
    /\ pc = "start"
    /\ tokenTypes = <<>>
    /\ declared = <<>>
    /\ ruleInstances = <<>>
    /\ rootNodeType = "none"
    /\ source = <<>>
    /\ tokens = <<>>
    /\ currentIndex = 0
    /\ lexerResult = NoResult
    /\ parserResult = NoResult
    /\ applied = NoResult
    /\ syntaxAst = <<>>
    /\ syntaxParser = NoResult
    /\ regexLastIndex = <<>>
    /\ completed = <<>>
    /\ extensions = <<>>
    /\ errorOffset = 0
    /\ sourceLocation = NoResult

\* createGrammar(definition), for a definition out of `definitions`
CreateGrammar(definitions) ==
    /\ pc = "start"
    /\ \E definition \in definitions :
         /\ declared' = definition.tokens
         /\ tokenTypes' = TokenTypes(definition.tokens)
         /\ ruleInstances' = RuleInstances(definition.rules)
         /\ rootNodeType' = definition.root
         /\ regexLastIndex' = NewRegExps(definition.tokens)
    /\ pc' = "ready"
    /\ UNCHANGED <<source, tokens, currentIndex, lexerResult, parserResult, applied>>
    /\ UNCHANGED <<syntaxVars, reuseVars>>
    /\ UNCHANGED locationVars

\* Parser.tokenize(input): the initial LexerState
TokenizeStart ==
    /\ pc = "ready"
    /\ pc' = "lexing"
    /\ \E input \in Sources : source' = input
    /\ tokens' = <<>>
    /\ currentIndex' = 0
    /\ UNCHANGED <<tokenTypes, declared, ruleInstances, rootNodeType, lexerResult,
                   parserResult, applied>>
    /\ UNCHANGED <<syntaxVars, regexLastIndex, reuseVars>>
    /\ UNCHANGED locationVars

\* One iteration of the `loop:` of tokenize in which a token parser matches
TokenizeEmit ==
    /\ pc = "lexing"
    /\ currentIndex < Len(source)
    /\ Len(tokens) < MaxTokens
    /\ LET parsers == tokenParsers(tokenTypes)
           j == FirstMatch(parsers, source, currentIndex)
       IN /\ j # 0
          /\ LET nextIndex == TokenParser(parsers[j].value, source, currentIndex)
             IN /\ tokens' = Append(tokens, LexedToken(parsers[j].key, currentIndex, nextIndex))
                /\ currentIndex' = nextIndex
          /\ regexLastIndex' = AfterTokenParsers(regexLastIndex, parsers, j, currentIndex)
    /\ UNCHANGED <<pc, tokenTypes, declared, ruleInstances, rootNodeType, source,
                   lexerResult, parserResult, applied>>
    /\ UNCHANGED <<syntaxVars, reuseVars>>
    /\ UNCHANGED locationVars

\* One iteration of the `loop:` of tokenize in which no token parser matches
TokenizeFail ==
    /\ pc = "lexing"
    /\ currentIndex < Len(source)
    /\ FirstMatch(tokenParsers(tokenTypes), source, currentIndex) = 0
    /\ lexerResult' = Failure(UnrecognizedToken(currentIndex))
    /\ regexLastIndex' = AfterTokenParsers(regexLastIndex, tokenParsers(tokenTypes),
                                           Len(tokenParsers(tokenTypes)), currentIndex)
    /\ pc' = "done"
    /\ UNCHANGED <<tokenTypes, declared, ruleInstances, rootNodeType, source, tokens,
                   currentIndex, parserResult, applied>>
    /\ UNCHANGED <<syntaxVars, reuseVars>>
    /\ UNCHANGED locationVars

\* tokenize leaves the loop and returns the tokens
TokenizeReturn ==
    /\ pc = "lexing"
    /\ ~(currentIndex < Len(source))
    /\ lexerResult' = Success(tokens)
    /\ pc' = "lexed"
    /\ UNCHANGED <<tokenTypes, declared, ruleInstances, rootNodeType, source, tokens,
                   currentIndex, parserResult, applied>>
    /\ UNCHANGED <<syntaxVars, regexLastIndex, reuseVars>>
    /\ UNCHANGED locationVars

\* parse(input, grammar, rootNodeType), after tokenize has succeeded:
\* Parser.parse(lexerResult.value, input, rootNodeType)
Parse ==
    /\ pc = "lexed"
    /\ rootNodeType # "none"
    /\ parserResult' = ParserParse(lexerResult.value, source, rootNodeType, ruleInstances)
    /\ pc' = "done"
    /\ UNCHANGED <<tokenTypes, declared, ruleInstances, rootNodeType, source, tokens,
                   currentIndex, lexerResult, applied>>
    /\ UNCHANGED <<syntaxVars, regexLastIndex, reuseVars>>
    /\ UNCHANGED locationVars

\* The rule `body` invoked on the token stream at `index`, as an enclosing
\* combinator invokes it: body(state, helpers)
ApplyRule ==
    /\ pc = "lexed"
    /\ rootNodeType # "none"
    /\ \E index \in 0..Len(lexerResult.value) :
         applied' = [rule |-> Lookup(ruleInstances, "body"),
                     state |-> InputState(lexerResult.value, source, index),
                     result |-> Apply(Lookup(ruleInstances, "body"),
                                      InputState(lexerResult.value, source, index),
                                      ruleInstances)]
    /\ pc' = "applied"
    /\ UNCHANGED <<tokenTypes, declared, ruleInstances, rootNodeType, source, tokens,
                   currentIndex, lexerResult, parserResult>>
    /\ UNCHANGED <<syntaxVars, regexLastIndex, reuseVars>>
    /\ UNCHANGED locationVars

(***************************************************************************)
(* The whole pipeline: createGrammar, then parse(source) or a direct rule  *)
(* application on the token stream of the source.                          *)
(***************************************************************************)
Next ==
    \/ CreateGrammar(ParseDefinitions)
    \/ TokenizeStart
    \/ TokenizeEmit
    \/ TokenizeFail
    \/ TokenizeReturn
    \/ Parse
    \/ ApplyRule

Spec == Init /\ [][Next]_vars

(***************************************************************************)
(* A grammar that is used more than once: while parse(source) goes through *)
(* its steps, other calls of parse on the same grammar run to completion   *)
(* before it, between its steps and after it.                              *)
(***************************************************************************)
MaxCalls == 2      \* most calls of parse that run to completion on one grammar

ReuseBodies == {oneOrMore(tA), list(tA, tB, 0), choice(<<tB, sequence(<<tA, tB>>)>>)}

ReuseDefinitions == {d \in ParseDefinitions : d.rules[2].value \in ReuseBodies}

ReuseSources == {<<>>, <<"a">>, <<"a", "b">>, <<"a", "+">>}

\* parse(input, grammar, rootNodeType), from call to return, on the grammar
\* that has been created
GrammarParse ==
    /\ pc # "start"
    /\ Len(completed) < MaxCalls
    /\ \E input \in ReuseSources :
         LET call == parse(input, tokenTypes, regexLastIndex, ruleInstances, rootNodeType)
         IN /\ completed' = Append(completed, [source |-> input,
                                               result |-> call.result,
                                               during |-> pc,
                                               extended |-> Len(extensions)])
            /\ regexLastIndex' = call.lastIndexes
    /\ UNCHANGED <<pc, tokenTypes, declared, ruleInstances, rootNodeType, source, tokens,
                   currentIndex, lexerResult, parserResult, applied, syntaxVars,
                   extensions>>
    /\ UNCHANGED locationVars

NextReentrant ==
    \/ CreateGrammar(ReuseDefinitions)
    \/ TokenizeStart
    \/ TokenizeEmit
    \/ TokenizeFail
    \/ TokenizeReturn
    \/ Parse
    \/ GrammarParse

SpecReentrant == Init /\ [][NextReentrant]_vars

(***************************************************************************)
(* The lexer on its own: grammar.tokenize(source) for every lexer grammar. *)
(***************************************************************************)
NextLex ==
    \/ CreateGrammar(LexDefinitions)
    \/ TokenizeStart
    \/ TokenizeEmit
    \/ TokenizeFail
    \/ TokenizeReturn

SpecLex == Init /\ [][NextLex]_vars

(***************************************************************************)
(* The grammar DSL: syntax(source), from the AST that parseSyntaxAst       *)
(* returns for the source.  A rule of the AST is a terminal rule           *)
(* `NAME ::= pattern` or a non-terminal rule `<name> ::= expression`.      *)
(***************************************************************************)
MaxRules == 2      \* most rules of a grammar definition

\* The names that the grammar definitions give to their non-terminal rules
SyntaxNames == {"Root", "Item", "body", "1st"}

\* String.prototype.charAt(0), on the names above
charAt0(name) ==
    CASE name = "Root" -> "R"
      [] name = "Item" -> "I"
      [] name = "body" -> "b"
      [] name = "1st" -> "1"

\* String.prototype.toUpperCase, on the characters above: a lowercase letter
\* becomes its capital, every other character is left as it is
toUpperCase(c) == CASE c = "b" -> "B" [] OTHER -> c

\* The nodes of the grammar definition AST
TerminalRule(name, value) == [type |-> "TerminalRule", target |-> name, value |-> value]
NonTerminalRule(name, value) == [type |-> "NonTerminalRule", target |-> name, value |-> value]
TerminalIdentifier(name) == [type |-> "TerminalIdentifier", name |-> name]
NonTerminalIdentifier(name) == [type |-> "NonTerminalIdentifier", name |-> name]
EmptyExpression == [type |-> "Empty"]
ListExpression(item, separator) == [type |-> "List", item |-> item, separator |-> separator]
SequenceExpression(elements) == [type |-> "Sequence", elements |-> elements]
ChoiceExpression(alternatives) == [type |-> "Choice", alternatives |-> alternatives]
ReadExpression(input) == [type |-> "Read", input |-> input]

isNodeTypeIdentifier(name) == charAt0(name) = toUpperCase(charAt0(name))

\* parseSyntaxExpression(value)($), where $ holds a lazy accessor for each of `keys`
RECURSIVE parseSyntaxExpression(_, _)
parseSyntaxExpression(value, keys) ==
    CASE value.type = "Empty" -> empty
      [] value.type = "TerminalIdentifier" -> token(value.name)
      [] value.type = "NonTerminalIdentifier" -> RuleAccessor(value.name, keys)
      [] value.type = "List" ->
            list(parseSyntaxExpression(value.item, keys),
                 parseSyntaxExpression(value.separator, keys), 0)
      [] value.type = "Choice" ->
            choice([i \in DOMAIN value.alternatives |->
                      parseSyntaxExpression(value.alternatives[i], keys)])
      [] value.type = "Sequence" ->
            sequence([i \in DOMAIN value.elements |->
                        parseSyntaxExpression(value.elements[i], keys)])
      [] value.type = "Read" -> text(parseSyntaxExpression(value.input, keys))

\* The rules of one type of a grammar definition, in source order
RulesOfType(program, type) == SelectSeq(program, LAMBDA rule : rule.type = type)

Thrown(error) == [type |-> "thrown", error |-> error]

\* parseSyntaxGrammar(ast): the definition handed to createGrammar and the root
\* node type, or the SyntaxError thrown
parseSyntaxGrammar(program) ==
    LET nonTerminals == RulesOfType(program, "NonTerminalRule")
        terminals == RulesOfType(program, "TerminalRule")
        keys == {nonTerminals[i].target : i \in DOMAIN nonTerminals}
    IN IF nonTerminals = <<>>
       THEN Thrown(<<"Missing root rule in syntax grammar">>)
       ELSE IF ~isNodeTypeIdentifier(nonTerminals[1].target)
       THEN Thrown(<<"Root rule must define an AST Node: ", nonTerminals[1].target>>)
       ELSE [type |-> "returned",
             rootNodeType |-> nonTerminals[1].target,
             tokenTypes |-> FromEntries([i \in DOMAIN terminals |->
                              [key |-> terminals[i].target, value |-> terminals[i].value]]),
             ruleFactories |-> FromEntries([i \in DOMAIN nonTerminals |->
                              [key |-> nonTerminals[i].target,
                               value |->
                                 IF isNodeTypeIdentifier(nonTerminals[i].target)
                                 THEN node(nonTerminals[i].target,
                                           parseSyntaxExpression(nonTerminals[i].value, keys))
                                 ELSE parseSyntaxExpression(nonTerminals[i].value, keys)]])]

\* syntax(source): the SyntaxParser returned (with the names that it has token
\* and node factories for), or the error thrown
syntax(program) ==
    LET parsed == parseSyntaxGrammar(program)
        nonTerminals == RulesOfType(program, "NonTerminalRule")
        nodeTypesNames == SelectSeq([i \in DOMAIN nonTerminals |-> nonTerminals[i].target],
                                    isNodeTypeIdentifier)
    IN IF parsed.type = "thrown" THEN parsed
       ELSE [type |-> "returned",
             rootNodeType |-> parsed.rootNodeType,
             tokens |-> Keys(OwnEntries(parsed.tokenTypes)),
             nodes |-> Keys(FromEntries([i \in DOMAIN nodeTypesNames |->
                              [key |-> nodeTypesNames[i], value |-> nodeTypesNames[i]]]))]

\* The grammar definitions: a token A and rules whose bodies are a token, the
\* empty expression, a reference to a rule, or a list
SyntaxExpressions ==
    {TerminalIdentifier("A"), EmptyExpression,
     ListExpression(NonTerminalIdentifier("Item"), TerminalIdentifier("A"))}
        \cup {NonTerminalIdentifier(name) : name \in SyntaxNames \cup {"A"}}

SyntaxRules ==
    {TerminalRule("A", StringPattern(<<"a">>))}
        \cup {NonTerminalRule(name, value) : name \in SyntaxNames, value \in SyntaxExpressions}

SyntaxPrograms == UNION {[1..k -> SyntaxRules] : k \in 0..MaxRules}

\* syntax(source) for a grammar definition out of SyntaxPrograms
Syntax ==
    /\ pc = "start"
    /\ \E program \in SyntaxPrograms :
         /\ syntaxAst' = program
         /\ syntaxParser' = syntax(program)
         /\ IF parseSyntaxGrammar(program).type = "returned"
            THEN /\ declared' = parseSyntaxGrammar(program).tokenTypes
                 /\ tokenTypes' = TokenTypes(parseSyntaxGrammar(program).tokenTypes)
                 /\ ruleInstances' = parseSyntaxGrammar(program).ruleFactories
                 /\ rootNodeType' = parseSyntaxGrammar(program).rootNodeType
                 /\ regexLastIndex' = NewRegExps(parseSyntaxGrammar(program).tokenTypes)
                 /\ pc' = "ready"
            ELSE /\ pc' = "done"
                 /\ UNCHANGED <<declared, tokenTypes, ruleInstances, rootNodeType,
                                regexLastIndex>>
    /\ UNCHANGED <<source, tokens, currentIndex, lexerResult, parserResult, applied>>
    /\ UNCHANGED reuseVars
    /\ UNCHANGED locationVars

NextSyntax == Syntax

SpecSyntax == Init /\ [][NextSyntax]_vars

(***************************************************************************)
(* The line and column of an offset of the source, as ParseError reports   *)
(* them.  Offsets count from 0: the character at offset i is source[i + 1].*)
(***************************************************************************)
LocationChars == {"a", "\r", "\n"}

LocationSources == UNION {[1..k -> LocationChars] : k \in 0..MaxSource}

\* source.matchAll(/\r?\n/g) from offset i on: for each match its index, the
\* matched text, and the length of the match array, which holds the matched
\* text and one entry per capture group of the pattern
RECURSIVE matchAll(_, _)
matchAll(input, i) ==
    IF i >= Len(input) THEN <<>>
    ELSE IF input[i + 1] = "\r" /\ i + 1 < Len(input) /\ input[i + 2] = "\n"
    THEN <<[index |-> i, text |-> <<"\r", "\n">>, length |-> 1]>> \o matchAll(input, i + 2)
    ELSE IF input[i + 1] = "\n"
    THEN <<[index |-> i, text |-> <<"\n">>, length |-> 1]>> \o matchAll(input, i + 1)
    ELSE matchAll(input, i + 1)

\* findSourceLineOffsets(source): the range of each line; lineOffsets[n + 1]
\* is the code's lineOffsets[n]
findSourceLineOffsets(input) ==
    LET matches == matchAll(input, 0)
    IN <<[start |-> 0,
          end |-> IF Len(matches) > 0 THEN matches[1].index ELSE Len(input)]>>
       \o [n \in DOMAIN matches |->
             [start |-> matches[n].index + matches[n].length,
              end |-> IF n < Len(matches) THEN matches[n + 1].index ELSE Len(input)]]

\* getLineIndex(lineOffsets, offset): the index of the line, from 0, or -1
\* for null
getLineIndex(lineOffsets, at) ==
    LET found == {n \in DOMAIN lineOffsets :
                    at >= lineOffsets[n].start /\ at <= lineOffsets[n].end}
    IN IF at < 0 \/ at > lineOffsets[Len(lineOffsets)].end THEN -1
       ELSE IF found = {} THEN -1
       ELSE Min(found) - 1

getSourceLocation(lineOffsets, lineIndex, at) ==
    [line |-> 1 + lineIndex, column |-> 1 + (at - lineOffsets[lineIndex + 1].start)]

findSourceLocation(input, at) ==
    IF at <= 0 THEN [line |-> 1, column |-> 1]
    ELSE LET lineOffsets == findSourceLineOffsets(input)
             lineIndex == getLineIndex(lineOffsets, at)
         IN IF lineIndex = -1
            THEN getSourceLocation(lineOffsets, Len(lineOffsets) - 1, Len(input))
            ELSE getSourceLocation(lineOffsets, lineIndex, at)

\* findSourceLocation(source, offset) for an offset of the source, one before
\* it or one past its end
FindSourceLocation ==
    /\ pc = "start"
    /\ \E input \in LocationSources, at \in (0 - 1)..(MaxSource + 1) :
         /\ at <= Len(input) + 1
         /\ source' = input
         /\ errorOffset' = at
         /\ sourceLocation' = findSourceLocation(input, at)
    /\ pc' = "done"
    /\ UNCHANGED <<tokenTypes, declared, ruleInstances, rootNodeType, tokens, currentIndex,
                   lexerResult, parserResult, applied, syntaxVars, regexLastIndex,
                   reuseVars>>

NextLocation == FindSourceLocation

SpecLocation == Init /\ [][NextLocation]_vars

(***************************************************************************)
(* extendGrammar.  A lazy accessor of an extended grammar reads the        *)
(* backing table of the createLazyRuleAccessors call that made it: table 0 *)
(* is that of the grammar that createGrammar returned, table n that of the *)
(* n-th grammar that extendGrammar returned.                               *)
(***************************************************************************)
MaxExtensions == 2 \* most calls of extendGrammar

\* { ...a, ...b } of two objects
Spread(a, b) == OwnEntries(FromEntries(a \o b))

\* The lazy accessors of createLazyRuleAccessors(ruleDefinitions), which read
\* the backing table `table`
Accessors(ruleDefinitions, table) ==
    [i \in DOMAIN OwnEntries(ruleDefinitions) |->
        [key |-> OwnEntries(ruleDefinitions)[i].key,
         value |-> [table |-> table, key |-> OwnEntries(ruleDefinitions)[i].key]]]

\* grammar.rules of the n-th grammar, n = 0 being the grammar created
GrammarRules(n) == IF n = 0 THEN Accessors(ruleInstances, 0) ELSE extensions[n].rules

\* extendGrammar(grammar, rules), the n-th call: the grammar returned, whose
\* new accessors read a backing table of their own, and the backing table of
\* the grammar created as the call leaves it
extendGrammarSharedTable(instances, grammarRules, rules, n) ==
    [instances |-> Spread(instances, rules),
     grammar |-> [rules |-> Spread(grammarRules, Accessors(rules, 0)),
                  ruleInstances |-> RuleInstances(rules)]]
extendGrammar(instances, grammarRules, rules, n) ==
    [instances |-> instances,
     grammar |-> [rules |-> Spread(grammarRules, Accessors(rules, n)),
                  ruleInstances |-> RuleInstances(rules)]]

\* The rules that grammars are extended with: a new node type, a new node type
\* over a rule of the grammar, and rules that take the name of a rule of the
\* grammar
ExtensionRules ==
    { << [key |-> "Extra", value |-> node("Extra", tA)] >>,
      << [key |-> "Extra", value |-> node("Extra", LazyRuleAccessor("body"))] >>,
      << [key |-> "body", value |-> tB] >>,
      << [key |-> "Root", value |-> node("Root", tB)],
         [key |-> "last", value |-> tA] >> }

\* extendGrammar(grammar, rules) for the grammar created or one returned by an
\* earlier call
ExtendGrammar ==
    /\ pc = "ready"
    /\ Len(extensions) < MaxExtensions
    /\ \E base \in 0..Len(extensions), rules \in ExtensionRules :
         LET extended == extendGrammar(ruleInstances, GrammarRules(base), rules,
                                       Len(extensions) + 1)
         IN /\ extensions' = Append(extensions, extended.grammar)
            /\ ruleInstances' = extended.instances
    /\ UNCHANGED <<pc, tokenTypes, declared, rootNodeType, source, tokens, currentIndex,
                   lexerResult, parserResult, applied, syntaxVars, regexLastIndex,
                   completed>>
    /\ UNCHANGED locationVars

NextExtend ==
    \/ CreateGrammar(ReuseDefinitions)
    \/ ExtendGrammar
    \/ GrammarParse

SpecExtend == Init /\ [][NextExtend]_vars

(***************************************************************************)
(* Properties of the grammar DSL.                                          *)
(***************************************************************************)
UppercaseLetters == {"R", "I", "B"}
LowercaseLetters == {"b"}

BeginsUppercase(name) == charAt0(name) \in UppercaseLetters
BeginsLowercase(name) == charAt0(name) \in LowercaseLetters

\* The names of the non-terminal rules of the grammar definition, in source order
NonTerminalNames ==
    LET nonTerminals == RulesOfType(syntaxAst, "NonTerminalRule")
    IN [i \in DOMAIN nonTerminals |-> nonTerminals[i].target]

\* C13: for grammar definitions whose rule names begin with a letter, the root
\* is the first non-terminal rule whose name begins with an uppercase letter,
\* whatever lowercase-named rules come before it, and syntax throws exactly
\* when there is no such rule.
C13_RootIsFirstUppercaseRule ==
    LET uppers == {i \in DOMAIN NonTerminalNames : BeginsUppercase(NonTerminalNames[i])}
    IN (/\ syntaxParser.type # "none"
        /\ \A i \in DOMAIN NonTerminalNames :
              BeginsUppercase(NonTerminalNames[i]) \/ BeginsLowercase(NonTerminalNames[i]))
         => IF uppers = {}
            THEN syntaxParser.type = "thrown"
            ELSE /\ syntaxParser.type = "returned"
                 /\ syntaxParser.rootNodeType = NonTerminalNames[Min(uppers)]

\* The rule names that an expression of a grammar definition refers to
RECURSIVE References(_)
References(value) ==
    CASE value.type = "NonTerminalIdentifier" -> {value.name}
      [] value.type = "List" -> References(value.item) \cup References(value.separator)
      [] value.type = "Choice" ->
            UNION {References(value.alternatives[i]) : i \in DOMAIN value.alternatives}
      [] value.type = "Sequence" ->
            UNION {References(value.elements[i]) : i \in DOMAIN value.elements}
      [] value.type = "Read" -> References(value.input)
      [] OTHER -> {}

\* The names referred to by the rule bodies of the definition that no rule defines
UndefinedReferences ==
    LET nonTerminals == RulesOfType(syntaxAst, "NonTerminalRule")
    IN UNION {References(nonTerminals[i].value) : i \in DOMAIN nonTerminals}
         \ Range(NonTerminalNames)

\* A rule of the built grammar holds, somewhere in it, the value `undefined`
\* where a rule is expected
RECURSIVE Dangling(_)
Dangling(rule) ==
    CASE rule.op = "undefined" -> TRUE
      [] rule.op \in {"optional", "zeroOrMore", "oneOrMore", "map", "text", "node"} ->
            Dangling(rule.rule)
      [] rule.op \in {"sequence", "choice"} ->
            \E i \in DOMAIN rule.rules : Dangling(rule.rules[i])
      [] OTHER -> FALSE

\* C14: syntax throws whenever a rule body refers to a rule name that no rule
\* of the definition defines, and a grammar that is returned holds no dangling
\* rule reference.
C14_UndefinedReferenceThrows ==
    /\ (syntaxParser.type # "none" /\ UndefinedReferences # {})
         => syntaxParser.type = "thrown"
    /\ syntaxParser.type = "returned"
         => \A i \in DOMAIN ruleInstances : ~Dangling(ruleInstances[i].value)

\* The body of the last rule of the grammar definition that defines `name`,
\* lowered to a rule of the grammar
LoweredBody(name) ==
    LET nonTerminals == RulesOfType(syntaxAst, "NonTerminalRule")
        last == Max({i \in DOMAIN nonTerminals : nonTerminals[i].target = name})
    IN parseSyntaxExpression(nonTerminals[last].value, Range(NonTerminalNames))

\* C15: in a grammar that syntax returns, every rule name begins with an
\* uppercase or with a lowercase letter; a rule of an uppercase-initial name is
\* its body wrapped in node(name, ...) and has a node factory; a rule of a
\* lowercase-initial name is its body as it is and has no node factory.
C15_RuleNamesSplitInTwoClasses ==
    syntaxParser.type = "returned" =>
        \A name \in Range(NonTerminalNames) :
            /\ BeginsUppercase(name) \/ BeginsLowercase(name)
            /\ BeginsUppercase(name) =>
                  /\ Lookup(ruleInstances, name) = node(name, LoweredBody(name))
                  /\ name \in Range(syntaxParser.nodes)
            /\ BeginsLowercase(name) =>
                  /\ Lookup(ruleInstances, name) = LoweredBody(name)
                  /\ name \notin Range(syntaxParser.nodes)

(***************************************************************************)
(* Properties of the evaluator driver.                                     *)
(***************************************************************************)
\* The result of the root rule on the token stream, from index 0
RootResult ==
    Apply(LazyRuleAccessor(rootNodeType), InputState(lexerResult.value, source, 0),
          ruleInstances)

\* C1: parse returns a node only if the root rule succeeded with a currentIndex
\* equal to the length of the token stream: never while a token is unconsumed,
\* and never when tokenize failed.
C1_ParseConsumesAllTokens ==
    /\ parserResult.type = "success"
         => /\ lexerResult.type = "success"
            /\ RootResult.type = "success"
            /\ RootResult.value.currentIndex = Len(lexerResult.value)
            /\ parserResult.value = RootResult.value.value
    /\ lexerResult.type = "error" => parserResult = NoResult

C1_Witness ==
    /\ parserResult.type = "success"
    /\ Len(lexerResult.value) >= 2

\* C2: when the root rule succeeds with a currentIndex smaller than the length
\* of the token stream, parse fails with "Expected end of input" and the span
\* of the token at that currentIndex.
C2_ExpectedEndOfInput ==
    (/\ pc = "done" /\ lexerResult.type = "success"
     /\ RootResult.type = "success"
     /\ RootResult.value.currentIndex < Len(lexerResult.value))
        => parserResult =
             Failure(ParseError(<<"Expected end of input">>,
                       lexerResult.value[RootResult.value.currentIndex + 1].location))

C2_Witness ==
    /\ pc = "done" /\ lexerResult.type = "success"
    /\ RootResult.type = "success"
    /\ RootResult.value.currentIndex \in 1..(Len(lexerResult.value) - 1)
    /\ parserResult.type = "error"
    /\ parserResult.error.location.end > parserResult.error.location.start + 1

\* The spans of a token stream
Spans(toks) == [n \in DOMAIN toks |-> toks[n].location]

\* C12: if parse succeeds, the tokens of the root node are the spans of the
\* whole token stream, in stream order, each exactly once.
C12_RootNodeHoldsAllTokens ==
    parserResult.type = "success"
        => /\ parserResult.value.kind = "node"
           /\ parserResult.value.v.type = rootNodeType
           /\ parserResult.value.v.tokens = Spans(lexerResult.value)

\* A repetition that has matched three times, one token each
C12_Witness ==
    /\ parserResult.type = "success"
    /\ Lookup(ruleInstances, "body").op \in {"zeroOrMore", "oneOrMore"}
    /\ Len(lexerResult.value) = 3
    /\ Len(parserResult.value.v.properties.v) = 3

(***************************************************************************)
(* Properties of the combinators, on the recorded rule application.        *)
(***************************************************************************)
\* The result of a rule on the input state of the recorded application
On(rule) == Apply(rule, applied.state, ruleInstances)

AppliedCall == <<[rule |-> applied.rule, at |-> applied.state.currentIndex]>>

\* The alternatives of the applied choice that succeed / all fail
Succeeding == {i \in DOMAIN applied.rule.rules : On(applied.rule.rules[i]).type = "success"}

\* C7: choice evaluates its alternatives in declaration order, each from the
\* same input state, and returns the result of the first that succeeds; the
\* alternatives after it are not evaluated.
C7_ChoiceFirstSuccessWins ==
    (pc = "applied" /\ applied.rule.op = "choice" /\ Succeeding # {})
        => LET first == Min(Succeeding)
           IN /\ Returned(applied.result) = Returned(On(applied.rule.rules[first]))
              /\ applied.result.calls =
                   AppliedCall \o Concat([i \in 1..first |-> On(applied.rule.rules[i]).calls])
              /\ \A i \in 1..first :
                   On(applied.rule.rules[i]).calls[1] =
                     [rule |-> applied.rule.rules[i], at |-> applied.state.currentIndex]

C7_Witness ==
    /\ pc = "applied" /\ applied.rule.op = "choice" /\ Succeeding # {}
    /\ Min(Succeeding) > 1
    /\ \E j \in Succeeding :
         /\ j > Min(Succeeding)
         /\ On(applied.rule.rules[j]).value.currentIndex > applied.result.value.currentIndex

\* The start of the failure span of the i-th alternative of the applied choice
FailureStart(i) == On(applied.rule.rules[i]).error.location.start

Furthest ==
    {i \in DOMAIN applied.rule.rules :
        \A j \in DOMAIN applied.rule.rules : FailureStart(i) >= FailureStart(j)}

\* C8: when every alternative of a choice fails, the error returned is that of
\* the earliest alternative among those whose failure span starts furthest; two
\* alternatives whose failure starts differ give the same error in either order.
C8_ChoiceFurthestError ==
    (pc = "applied" /\ applied.rule.op = "choice" /\ Len(applied.rule.rules) >= 1
     /\ Succeeding = {})
        => /\ applied.result.type = "error"
           /\ applied.result.error = On(applied.rule.rules[Min(Furthest)]).error
           /\ applied.result.error.location.start =
                Max({FailureStart(i) : i \in DOMAIN applied.rule.rules})
           /\ (Len(applied.rule.rules) = 2 /\ FailureStart(1) # FailureStart(2))
                => On(choice(<<applied.rule.rules[2], applied.rule.rules[1]>>)).error
                     = applied.result.error

C8_Witness ==
    /\ pc = "applied" /\ applied.rule.op = "choice" /\ Len(applied.rule.rules) >= 3
    /\ Succeeding = {}
    /\ Min(Furthest) > 1
    /\ \E i \in Furthest :
         On(applied.rule.rules[i]).error # On(applied.rule.rules[Min(Furthest)]).error

\* C9: optional(r) and zeroOrMore(r) succeed on every input state; when r fails
\* at the first attempt optional yields null and zeroOrMore the empty list,
\* without advancing; neither returns an error.
C9_OptionalAndZeroOrMoreNeverFail ==
    (pc = "applied" /\ applied.rule.op \in {"optional", "zeroOrMore"})
        => /\ applied.result.type = "success"
           /\ On(applied.rule.rule).type = "error"
                => Returned(applied.result) =
                     Success([currentIndex |-> applied.state.currentIndex,
                              value |-> IF applied.rule.op = "optional"
                                        THEN NullValue ELSE ArrayValue(<<>>),
                              tokens |-> <<>>])

\* zeroOrMore(r) where the first attempt of r fails after r has matched a token
C9_Witness ==
    /\ pc = "applied" /\ applied.rule.op = "zeroOrMore"
    /\ On(applied.rule.rule).type = "error"
    /\ applied.state.currentIndex < Len(applied.state.input)
    /\ On(applied.rule.rule).error.location.start
         > applied.state.input[applied.state.currentIndex + 1].location.start

\* The applied rule is list(item, separator, {minLength}) of two token rules
IsList(item, separator) ==
    \E m \in 0..MaxMinLength : applied.rule = list(item, separator, m)

\* C10: a list that succeeds with at least one item returns the item values
\* only, in source order: the consumed tokens are item, separator, item, ...,
\* item, the values are the item tokens, and there is one value more than
\* there are separators consumed.
C10_ListItemsOnly ==
    \A item, separator \in {tA, tB} :
        (pc = "applied" /\ IsList(item, separator)
         /\ applied.result.type = "success" /\ applied.result.value.value.v # <<>>)
            => LET values == applied.result.value.value.v
                   toks == applied.result.value.tokens
                   separators == {n \in DOMAIN toks : n % 2 = 0}
               IN /\ applied.result.value.value.kind = "array"
                  /\ toks = SubSeq(applied.state.input, applied.state.currentIndex + 1,
                                   applied.state.currentIndex + Len(toks))
                  /\ \A n \in separators : toks[n].type = separator.type
                  /\ \A n \in DOMAIN toks \ separators : toks[n].type = item.type
                  /\ Len(toks) = Len(values) + Cardinality(separators)
                  /\ Len(values) = 1 + Cardinality(separators)
                  /\ \A k \in DOMAIN values : values[k] = TokenValue(toks[2 * k - 1])

C10_Witness ==
    /\ pc = "applied"
    /\ IsList(tB, tA)
    /\ applied.result.type = "success"
    /\ Len(applied.result.value.value.v) >= 2
    /\ Len(applied.result.value.tokens) = 3

\* The rule `body` of the grammar is list(item, separator, {minLength})
BodyIsList(item, separator) ==
    \E m \in 0..MaxMinLength : Lookup(ruleInstances, "body") = list(item, separator, m)

\* C11: list accepts neither a leading nor a trailing separator: the tokens a
\* list consumes begin and end with an item, a separator at the start is left
\* unconsumed, and parse of a token stream that begins or ends with a separator
\* fails, with "Expected end of input" at the separator when that separator is
\* the token after the ones the list consumed.
C11_ListRejectsDanglingSeparator ==
    \A item, separator \in {tA, tB} :
        item # separator =>
          /\ (pc = "applied" /\ IsList(item, separator) /\ applied.result.type = "success")
               => LET toks == applied.result.value.tokens
                      index == applied.state.currentIndex
                  IN /\ toks # <<>> => /\ toks[1].type = item.type
                                       /\ toks[Len(toks)].type = item.type
                     /\ (index < Len(applied.state.input)
                         /\ applied.state.input[index + 1].type = separator.type)
                          => toks = <<>> /\ applied.result.value.currentIndex = index
          /\ (/\ pc = "done" /\ lexerResult.type = "success" /\ lexerResult.value # <<>>
              /\ BodyIsList(item, separator)
              /\ \/ lexerResult.value[1].type = separator.type
                 \/ lexerResult.value[Len(lexerResult.value)].type = separator.type)
               => /\ parserResult.type = "error"
                  /\ (/\ RootResult.type = "success"
                      /\ lexerResult.value[RootResult.value.currentIndex + 1].type
                           = separator.type)
                       => parserResult =
                            Failure(ParseError(<<"Expected end of input">>,
                              lexerResult.value[RootResult.value.currentIndex + 1].location))

\* "a", separator "bb" at the end: the list matches one item and parse fails at "bb"
C11_Witness ==
    /\ pc = "done" /\ lexerResult.type = "success"
    /\ BodyIsList(tA, tB)
    /\ RootResult.type = "success"
    /\ RootResult.value.currentIndex = 1
    /\ Len(lexerResult.value) = 2
    /\ lexerResult.value[2].type = "B"
    /\ parserResult.type = "error"
    /\ parserResult.error.location = Location(1, 3)

(***************************************************************************)
(* Properties of the lexer.                                                *)
(***************************************************************************)
\* The regex a declaration is matched with, and whether it matches at offset i
DeclaredRegex(j) == createTokenParser(declared[j].value)
DeclaredMatchesAt(j, i) == StickyTest(DeclaredRegex(j), source, i) # -1

\* Position of `key` in the order in which tokenize tries the token parsers
TrialPosition(key) ==
    CHOOSE n \in DOMAIN tokenTypes : OwnKeys(tokenTypes)[n] = key

\* C3: every emitted token has the kind of the first declaration, in the
\* declaration order of the grammar, whose pattern matches where the token starts.
C3_DeclarationOrderWins ==
    \A n \in DOMAIN tokens :
        LET matching == {j \in DOMAIN declared : DeclaredMatchesAt(j, tokens[n].location.start)}
        IN matching # {} /\ tokens[n].type = declared[Min(matching)].key

\* The token spans tile [0, end): they start at 0, each starts where the
\* previous one ends, the last ends at `end`, and the starts increase strictly
Tiles(toks, end) ==
    /\ toks = <<>> => end = 0
    /\ toks # <<>> => toks[1].location.start = 0 /\ toks[Len(toks)].location.end = end
    /\ \A n \in 2..Len(toks) :
          /\ toks[n].location.start = toks[n - 1].location.end
          /\ toks[n].location.start > toks[n - 1].location.start

\* C4: whenever tokenize succeeds, the token spans tile the source exactly.
C4_TokensTileSource ==
    pc = "lexed" => lexerResult.type = "success" /\ Tiles(lexerResult.value, Len(source))

C4_Witness ==
    /\ pc = "lexed"
    /\ Len(lexerResult.value) >= 2
    /\ \E n \in DOMAIN lexerResult.value :
          lexerResult.value[n].location.end > lexerResult.value[n].location.start + 1

\* C5: when the lexer stands at a position i where no declared pattern matches,
\* tokenize returns the error "Unrecognized token" with span [i, i+1) and no token
\* list, the tokens before it tiling [0, i); it returns no other error.
C5_UnrecognizedToken ==
    [][ /\ (pc = "lexing" /\ currentIndex < Len(source)
             /\ \A j \in DOMAIN declared : ~DeclaredMatchesAt(j, currentIndex))
            => /\ pc' = "done"
               /\ lexerResult' = Failure(ParseError(<<"Unrecognized token">>,
                                    Location(currentIndex, currentIndex + 1)))
               /\ DOMAIN lexerResult' = {"type", "error"}
               /\ Tiles(tokens, currentIndex)
        /\ (lexerResult'.type = "error" /\ lexerResult.type # "error")
            => /\ pc = "lexing"
               /\ \A j \in DOMAIN declared : ~DeclaredMatchesAt(j, currentIndex)
               /\ lexerResult'.error.location = Location(currentIndex, currentIndex + 1)
      ]_vars

C5_Witness ==
    /\ lexerResult.type = "error"
    /\ lexerResult.error.location.start > 0
    /\ Len(tokens) >= 2

\* C6 as stated, on the non-empty patterns: tokenize(P) for a declared string
\* pattern P of kind K yields exactly one token of kind K with span [0, len(P)),
\* whatever else is declared and in whatever order.
C6_StringPatternLexesAsItself ==
    \A j \in DOMAIN declared :
        (/\ pc \in {"lexed", "done"}
         /\ declared[j].value.string /\ declared[j].value.src = source
         /\ source # <<>>)
            => lexerResult = Success(<<Token(declared[j].key, 0, Len(source))>>)

\* No kind that tokenize tries before declaration j matches at offset 0
FirstTriedMatch(j) ==
    \A k \in DOMAIN declared :
        TrialPosition(declared[k].key) < TrialPosition(declared[j].key)
            => ~DeclaredMatchesAt(k, 0)

\* C6 amended: for a non-empty string pattern P of kind K such that no kind
\* tried before K matches at offset 0 of P, tokenize(P) emits the single token
\* of kind K with span [0, len(P)), returns it, and reports no error.
C6_FirstStringPatternLexesAsItself ==
    \A j \in DOMAIN declared :
        (/\ pc \in {"lexing", "lexed", "done"}
         /\ declared[j].value.string /\ declared[j].value.src = source
         /\ source # <<>>
         /\ FirstTriedMatch(j))
            => /\ pc # "done"
               /\ tokens \in {<<>>, <<Token(declared[j].key, 0, Len(source))>>}
               /\ tokens = <<>> => pc = "lexing" /\ currentIndex = 0
               /\ pc = "lexed" => lexerResult = Success(<<Token(declared[j].key, 0, Len(source))>>)

C6_Witness ==
    /\ pc = "lexed"
    /\ source = <<"a", "+">>
    /\ \E j \in DOMAIN declared :
          /\ declared[j].value = StringPattern(source)
          /\ FirstTriedMatch(j)
          /\ j > 1
    /\ Len(lexerResult.value) = 1

(***************************************************************************)
(* Properties of a grammar that is used more than once.                    *)
(***************************************************************************)
\* What parse(source), taken step by step, has returned
StepResult == IF lexerResult.type = "error" THEN lexerResult ELSE parserResult

\* The calls of parse that have returned gave equal results for equal sources
SameSourceSameResult ==
    /\ \A i, j \in DOMAIN completed :
          completed[i].source = completed[j].source
             => completed[i].result = completed[j].result
    /\ pc = "done" =>
          \A i \in DOMAIN completed :
             completed[i].source = source => completed[i].result = StepResult

\* C17: once the grammar is created, no step of tokenize or parse changes the
\* grammar (token types, rule instances) or the RegExp objects that the token
\* parsers share between calls, and every call of parse returns the result
\* that every other call on the same source returns, whether it ran before,
\* between the steps of, or after that call.
C17_CallsShareNoState ==
    [][/\ pc # "start" =>
            UNCHANGED <<tokenTypes, declared, ruleInstances, rootNodeType, regexLastIndex>>
       /\ SameSourceSameResult']_vars

C17_Witness ==
    /\ pc = "done"
    /\ parserResult.type = "success"
    /\ Len(tokens) = 2
    /\ Len(completed) = 2
    /\ completed[1].source = source /\ completed[1].during = "lexing"
    /\ completed[2].source = source /\ completed[2].during = "done"

\* C16: a call of extendGrammar leaves the grammar it is given as it was, with
\* the rule names, the rule instances and the token declarations it had, and
\* parse on that grammar returns after the extensions what it returned for the
\* same source before them.
C16_ExtendLeavesGrammarUnchanged ==
    [][/\ extensions' # extensions =>
            /\ UNCHANGED <<tokenTypes, declared, ruleInstances, rootNodeType>>
            /\ Keys(ruleInstances') = Keys(ruleInstances)
            /\ \A n \in DOMAIN extensions : extensions'[n] = extensions[n]
       /\ SameSourceSameResult']_vars

C16_Witness ==
    /\ Len(extensions) = 2
    /\ \E n \in DOMAIN extensions : "body" \in Range(Keys(extensions[n].ruleInstances))
    /\ Len(completed) = 2
    /\ completed[1].extended = 0
    /\ completed[2].extended = 2
    /\ completed[1].source = completed[2].source
    /\ completed[2].result.type = "success"

\* The backing table numbered `table`: 0 is that of the grammar created, n that
\* of the n-th call of extendGrammar
BackingTable(table) ==
    IF table = 0 THEN ruleInstances ELSE extensions[table].ruleInstances

\* The rule that grammar.rules[name] of the n-th grammar invokes
Registered(n, name) ==
    LET accessor == Lookup(GrammarRules(n), name)
    IN Lookup(BackingTable(accessor.table), accessor.key)

\* The names of the lazy accessors that a rule instance holds
RECURSIVE Referenced(_)
Referenced(rule) ==
    CASE rule.op = "ref" -> {rule.key}
      [] rule.op \in {"optional", "zeroOrMore", "oneOrMore", "map", "text", "node"} ->
            Referenced(rule.rule)
      [] rule.op \in {"sequence", "choice"} ->
            UNION {Referenced(rule.rules[i]) : i \in DOMAIN rule.rules}
      [] OTHER -> {}

\* C27: in an extended grammar every reference that a rule makes through its
\* rules handle, be the rule one of the extension or one of the original
\* grammar, is to a rule and resolves to the rule that the merged rule map of
\* the extended grammar registers under that name.
C27_ReferencesResolveInMergedMap ==
    \A n \in DOMAIN extensions :
      \A name \in Range(Keys(extensions[n].rules)) :
        LET accessor == Lookup(extensions[n].rules, name)
            instance == Registered(n, name)
        IN /\ ~Dangling(instance)
           /\ \A key \in Referenced(instance) :
                 /\ key \in Range(Keys(extensions[n].rules))
                 /\ Lookup(BackingTable(accessor.table), key) = Registered(n, key)

(***************************************************************************)
(* Properties of the error formatter.                                      *)
(***************************************************************************)
\* The line breaks of the source that end at or before offset `at`: a line
\* break, "\n" alone or the pair "\r\n", ends after its "\n"
LineBreaksUpTo(input, at) == {i \in 1..at : input[i] = "\n"}

\* C18: for every offset from 0 to the length of the source, the line and the
\* column reported are at least 1, the line is 1 plus the number of line
\* breaks ("\n" or "\r\n") that end at or before the offset, and an offset
\* that comes right after a line break is reported at column 1.
C18_LineAndColumn ==
    (sourceLocation # NoResult /\ errorOffset >= 0 /\ errorOffset <= Len(source)) =>
        /\ sourceLocation.line >= 1
        /\ sourceLocation.column >= 1
        /\ sourceLocation.line = 1 + Cardinality(LineBreaksUpTo(source, errorOffset))
        /\ (errorOffset > 0 /\ source[errorOffset] = "\n") => sourceLocation.column = 1

(***************************************************************************)
(* Properties of parsing the empty source.                                 *)
(***************************************************************************)
\* The root rule fails on a token stream that holds no token: no success of it
\* leaves every token unconsumed
RootNeedsToken ==
    Apply(LazyRuleAccessor(rootNodeType), InputState(<<>>, <<>>, 0), ruleInstances).type
        = "error"

ParsedEmptySource == pc = "done" /\ source = <<>> /\ parserResult # NoResult

ExpectedDeclaredToken(message) ==
    \E i \in DOMAIN declared : message = <<"Expected token: ", declared[i].key>>

C20_NoZeroLengthToken ==
    \A i \in DOMAIN tokens : tokens[i].location.start < tokens[i].location.end

\* C21: tokenize terminates: every iteration of its loop either moves
\* currentIndex forward or returns, so that the loop runs at most as many
\* times as the source has characters.
C21_TokenizeTerminates ==
    [][pc = "lexing" =>
          /\ currentIndex' > currentIndex \/ pc' # "lexing"
          /\ Len(tokens') <= Len(source)]_vars

(***************************************************************************)
(* Properties of the repetitions.                                          *)
(***************************************************************************)
IsRepetition == pc = "applied" /\ applied.rule.op \in {"zeroOrMore", "oneOrMore"}

\* The invocations of the inner rule that the repetition has made, in order
Attempts == SelectSeq(applied.result.calls, LAMBDA c : c.rule = applied.rule.rule)

\* The inner rule invoked at index `at` of the token stream
Attempt(at) ==
    Apply(applied.rule.rule, [applied.state EXCEPT !.currentIndex = at], ruleInstances)

Advances(at) ==
    Attempt(at).type = "success" /\ Attempt(at).value.currentIndex > at

\* C22: zeroOrMore(r) and oneOrMore(r) terminate, also for an r that succeeds
\* without consuming a token: every invocation of r but the last has advanced,
\* so r is invoked at most once more than there are tokens left, and the
\* repetition returns at the first invocation of r that fails or succeeds
\* without advancing, with the index that invocation started at.
C22_RepetitionTerminates ==
    IsRepetition =>
        /\ Len(Attempts) >= 1
        /\ Len(Attempts)
              <= Len(applied.state.input) - applied.state.currentIndex + 1
        /\ \A k \in 1..(Len(Attempts) - 1) :
              /\ Attempts[k].at < Attempts[k + 1].at
              /\ Advances(Attempts[k].at)
        /\ ~Advances(Attempts[Len(Attempts)].at)
        /\ applied.result.type = "success" =>
              applied.result.value.currentIndex = Attempts[Len(Attempts)].at

C22_Witness ==
    /\ IsRepetition
    /\ Len(Attempts) >= 2
    /\ Attempt(Attempts[Len(Attempts)].at).type = "success"
    /\ applied.result.value.currentIndex < Len(applied.state.input)

(***************************************************************************)
(* Properties of failed attempts.                                          *)
(***************************************************************************)
\* The tokens of the stream from the index the applied rule started at up to
\* index `end`
SliceTo(end) == SubSeq(applied.state.input, applied.state.currentIndex + 1, end)

\* The applied rule has succeeded, at index `end`, with the tokens from its
\* start up to there
SucceededAt(end) ==
    /\ applied.result.type = "success"
    /\ applied.result.value.currentIndex = end
    /\ applied.result.value.tokens = SliceTo(end)

\* The alternatives that the applied choice has invoked
Tried == IF Succeeding = {} THEN DOMAIN applied.rule.rules ELSE 1..Min(Succeeding)

\* The invocations of `rule` in the log of the applied rule, in order
CallsOf(rule) == SelectSeq(applied.result.calls, LAMBDA c : c.rule = rule)

FailsAt(rule, at) ==
    Apply(rule, [applied.state EXCEPT !.currentIndex = at], ruleInstances).type = "error"

\* C23: a failed attempt leaves no trace.  Every alternative of choice is
\* invoked on the state that the choice was invoked on, whatever the failed
\* alternatives before it have matched; optional, zeroOrMore, oneOrMore and
\* list, when an attempt of theirs fails, succeed at the index that attempt
\* started at, with the tokens up to that index and none after it.
C23_FailedAttemptLeavesNoTrace ==
    /\ (pc = "applied" /\ applied.rule.op = "choice") =>
          /\ applied.result.calls =
               AppliedCall \o Concat([i \in Tried |-> On(applied.rule.rules[i]).calls])
          /\ applied.result.type = "success" =>
                SucceededAt(applied.result.value.currentIndex)
    /\ (pc = "applied" /\ applied.rule.op = "optional" /\ On(applied.rule.rule).type = "error")
          => SucceededAt(applied.state.currentIndex)
    /\ (IsRepetition /\ applied.result.type = "success"
          /\ FailsAt(applied.rule.rule, Attempts[Len(Attempts)].at))
          => SucceededAt(Attempts[Len(Attempts)].at)
    /\ \A item, separator \in {tA, tB} :
          (pc = "applied" /\ IsList(item, separator) /\ applied.result.type = "success") =>
              LET tails == CallsOf(tailItem(item, separator))
              IN IF tails = <<>>
                 THEN On(item).type = "error" => SucceededAt(applied.state.currentIndex)
                 ELSE FailsAt(tailItem(item, separator), tails[Len(tails)].at)
                         => SucceededAt(tails[Len(tails)].at)

C23_Witness ==
    /\ IsRepetition
    /\ applied.result.type = "success"
    /\ Len(Attempts) >= 2
    /\ LET last == Attempts[Len(Attempts)].at
           attempt == Attempt(last)
       IN /\ attempt.type = "error"
          /\ last < Len(applied.state.input)
          /\ attempt.error.location.start > applied.state.input[last + 1].location.start

(***************************************************************************)
(* Properties of the tokens that rules consume.                            *)
(***************************************************************************)
\* The result of the invocation `call` that the log of the applied rule holds
ResultOf(call) ==
    Apply(call.rule, [applied.state EXCEPT !.currentIndex = call.at], ruleInstances)

\* The invocations in `log`, from the k-th on, that were made by the rule
\* whose log it is: each is followed in the log by the invocations it made
RECURSIVE Children(_, _)
Children(log, k) ==
    IF k > Len(log) THEN <<>>
    ELSE <<log[k]>> \o Children(log, k + Len(ResultOf(log[k]).calls))

\* The tokens consumed by the sub-rule invocations of `call` that succeeded
PartsTokens(call) ==
    LET parts == SelectSeq(Children(ResultOf(call).calls, 2),
                           LAMBDA c : ResultOf(c).type = "success")
    IN Concat([n \in DOMAIN parts |-> ResultOf(parts[n]).value.tokens])

Composite(rule) == rule.op \in {"sequence", "zeroOrMore", "oneOrMore", "map"}

\* C24: the tokens consumed by a success of sequence, struct, zeroOrMore,
\* oneOrMore or list, and of every composite rule invoked within it, are the
\* tokens consumed by its successful sub-rule invocations, concatenated in
\* the order of the invocations.
C24_TokensAreConcatenationOfParts ==
    pc = "applied" =>
        \A k \in DOMAIN applied.result.calls :
            LET call == applied.result.calls[k]
            IN (Composite(call.rule) /\ ResultOf(call).type = "success")
                  => ResultOf(call).value.tokens = PartsTokens(call)

C24_Witness ==
    /\ pc = "applied"
    /\ applied.rule \in Structs
    /\ applied.result.type = "success"
    /\ Len(applied.result.value.tokens) = 3
    /\ Len(applied.result.value.value.v) = 2

(***************************************************************************)
(* Properties of the length of lists.                                      *)
(***************************************************************************)
\* The index after `rule` has matched at index `at`, or -1 if it fails there
After(rule, at) ==
    LET result == Apply(rule, [applied.state EXCEPT !.currentIndex = at], ruleInstances)
    IN IF result.type = "success" THEN result.value.currentIndex ELSE -1

\* The number of `separator item` pairs that match one after the other from
\* index `at` on, each pair consuming at least one token
RECURSIVE PairsFrom(_, _, _)
PairsFrom(item, separator, at) ==
    LET next == IF After(separator, at) = -1 THEN -1 ELSE After(item, After(separator, at))
    IN IF next <= at THEN 0 ELSE 1 + PairsFrom(item, separator, next)

\* The number of items, separated by `separator`, that match from the index
\* the applied rule started at
ItemsAvailable(item, separator) ==
    IF After(item, applied.state.currentIndex) = -1 THEN 0
    ELSE 1 + PairsFrom(item, separator, After(item, applied.state.currentIndex))

\* C25: list(item, separator, {minLength: m}) with m <= 0 never fails and, when
\* no first item matches, yields the empty list without advancing; with
\* m >= 1 it succeeds exactly when at least m items separated by separators
\* match from the current index; a list that succeeds holds every item that
\* matches, which are at least m.
C25_ListMinLength ==
    \A item, separator \in {tA, tB} : \A m \in 0..MaxMinLength :
        (pc = "applied" /\ applied.rule = list(item, separator, m)) =>
            LET available == ItemsAvailable(item, separator)
            IN /\ m <= 0 => applied.result.type = "success"
               /\ (m <= 0 /\ available = 0) =>
                     /\ applied.result.value.value = ArrayValue(<<>>)
                     /\ applied.result.value.currentIndex = applied.state.currentIndex
               /\ m >= 1 => (applied.result.type = "success" <=> available >= m)
               /\ applied.result.type = "success" =>
                     /\ Len(applied.result.value.value.v) = available
                     /\ available >= m

C25_Witness ==
    /\ pc = "applied"
    /\ applied.rule = list(tA, tB, 2)
    /\ applied.result.type = "success"
    /\ Len(applied.result.value.value.v) = 2
    /\ applied.state.currentIndex = 0

(***************************************************************************)
(* Properties of the references in rule bodies of the grammar DSL.         *)
(***************************************************************************)
\* The body of the last rule of the grammar definition that defines `name`
LastBody(name) ==
    LET nonTerminals == RulesOfType(syntaxAst, "NonTerminalRule")
    IN nonTerminals[Max({i \in DOMAIN nonTerminals : nonTerminals[i].target = name})].value

\* The rule that the grammar holds for the body of rule `name`
Lowered(name) ==
    IF Lookup(ruleInstances, name).op = "node"
    THEN Lookup(ruleInstances, name).rule
    ELSE Lookup(ruleInstances, name)

IsReference(value) == value.type \in {"TerminalIdentifier", "NonTerminalIdentifier"}

AccessorCalls ==
    {k \in DOMAIN applied.result.calls : applied.result.calls[k].rule.op = "ref"}

\* C28: the accessors of all the rule names are exposed before any factory is
\* invoked and none is dereferenced before a parse: in the grammar built every
\* reference, be it to the rule itself or to a rule declared after it, is held
\* as an accessor of a rule of the grammar; and in a parse every invocation of
\* an accessor invokes, on the same state, the rule instantiated under its
\* name and returns what that rule returns.
C28_ReferencesAreLazy ==
    /\ \A i \in DOMAIN ruleInstances :
          /\ ~Dangling(ruleInstances[i].value)
          /\ Referenced(ruleInstances[i].value) \subseteq Range(Keys(ruleInstances))
    /\ pc = "applied" =>
          \A k \in AccessorCalls :
            LET call == applied.result.calls[k]
                target == [rule |-> Lookup(ruleInstances, call.rule.key), at |-> call.at]
            IN /\ k < Len(applied.result.calls)
               /\ applied.result.calls[k + 1] = target
               /\ ResultOf(call) = [ResultOf(target) EXCEPT !.calls = <<call>> \o @]

C28_Witness ==
    /\ pc = "applied"
    /\ Keys(ruleInstances) = <<"Root", "body">>
    /\ Referenced(Lookup(ruleInstances, "Root")) = {"body"}
    /\ Referenced(Lookup(ruleInstances, "body")) = {"body"}
    /\ Cardinality(AccessorCalls) >= 2
    /\ applied.result.type = "success"
    /\ applied.result.value.currentIndex = 3

(***************************************************************************)
(* Properties of the index that rules return.                              *)
(***************************************************************************)
\* A success that started at index `at` of the token stream `input` ends at an
\* index of the stream, not before `at`, with the tokens in between
ConsumesSlice(input, at, resultState) ==
    /\ at <= resultState.currentIndex
    /\ resultState.currentIndex <= Len(input)
    /\ Len(resultState.tokens) = resultState.currentIndex - at
    /\ resultState.tokens = SubSeq(input, at + 1, resultState.currentIndex)

\* C29: every success of every combinator, invoked at index i of the token
\* stream, ends at an index i' with i <= i' <= the length of the stream and has
\* consumed exactly the tokens from i up to i'; so when the root rule has not
\* consumed the whole stream, Parser.parse finds a token at the index it
\* looks up and reports the location of that token.
C29_SuccessConsumesSlice ==
    /\ pc = "applied" =>
          \A k \in DOMAIN applied.result.calls :
            LET call == applied.result.calls[k]
            IN ResultOf(call).type = "success" =>
                  ConsumesSlice(applied.state.input, call.at, ResultOf(call).value)
    /\ (pc = "done" /\ parserResult.type # "none" /\ RootResult.type = "success") =>
          /\ ConsumesSlice(lexerResult.value, 0, RootResult.value)
          /\ RootResult.value.currentIndex # Len(lexerResult.value) =>
                /\ readToken(InputState(lexerResult.value, source, 0),
                             RootResult.value.currentIndex) # Null
                /\ parserResult =
                      Failure(ParseError(<<"Expected end of input">>,
                                lexerResult.value[RootResult.value.currentIndex + 1]
                                    .location))

C29_Witness ==
    /\ pc = "done"
    /\ parserResult.type = "error"
    /\ RootResult.type = "success"
    /\ RootResult.value.currentIndex = 2
    /\ Len(lexerResult.value) = 3
    /\ Lookup(ruleInstances, "body").op = "zeroOrMore"

(***************************************************************************)
(* oneOrMore(r) against sequence(r, zeroOrMore(r)).                        *)
(***************************************************************************)
\* sequence(r, zeroOrMore(r)) invoked on the state that the applied
\* oneOrMore(r) was invoked on
HeadThenTail ==
    Apply(sequence(<<applied.rule.rule, zeroOrMore(applied.rule.rule)>>),
          applied.state, ruleInstances)

\* C30: oneOrMore(r) returns what sequence(r, zeroOrMore(r)) returns on the
\* same state, the value of r put before the list of zeroOrMore(r): both fail
\* with the same error, or both succeed with the same currentIndex, the same
\* list of values and the same tokens, also when the first match of r has not
\* advanced.
C30_OneOrMoreIsHeadThenTail ==
    (pc = "applied" /\ applied.rule.op = "oneOrMore") =>
        /\ applied.result.type = HeadThenTail.type
        /\ applied.result.type = "error" => applied.result.error = HeadThenTail.error
        /\ applied.result.type = "success" =>
              /\ applied.result.value.currentIndex = HeadThenTail.value.currentIndex
              /\ applied.result.value.tokens = HeadThenTail.value.tokens
              /\ applied.result.value.value =
                    ArrayValue(<<HeadThenTail.value.value.v[1]>>
                                  \o HeadThenTail.value.value.v[2].v)

C30_Witness ==
    /\ pc = "applied"
    /\ applied.rule = oneOrMore(optional(tB))
    /\ applied.state.currentIndex < Len(applied.state.input)
    /\ applied.state.input[applied.state.currentIndex + 1].type = "A"
    /\ applied.result.type = "success"
    /\ applied.result.value.currentIndex = applied.state.currentIndex
    /\ Len(applied.result.value.value.v) = 1

====
